---- MODULE Spec2Model ----
(***************************************************************************)
(* A model of evxtb/xtb_ev.py: the VASP structure-file handler (parse,     *)
(* template, scaled write), the xTB output extractor, the repeat-unit      *)
(* counter and the curve driver xtbev.                                     *)
(*                                                                         *)
(* Text is modelled at the character level: a string is a sequence of      *)
(* one-character strings, a file is one such sequence, and split, join,    *)
(* float(), int(), str.format and re.search are computed on characters.    *)
(*                                                                         *)
(* Numbers are exact rationals <<n, d>> (d > 0, lowest terms).  The inputs *)
(* are kept to values on which IEEE double arithmetic is exact: lattice    *)
(* components that are small dyadic rationals and scale factors that are   *)
(* cubes of small dyadic rationals (0.125, 1, 3.375, 8, 27: Python's       *)
(* s ** (1/3) returns 0.5, 1.0, 1.5, 2.0, 3.0 for them).  Rounding of      *)
(* other doubles is not modelled.                                          *)
(***************************************************************************)
EXTENDS Integers, Sequences, FiniteSets, TLC

(***************************************************************************)
(* Numbers                                                                 *)
(***************************************************************************)
Abs(n) == IF n < 0 THEN -n ELSE n

RECURSIVE Euclid(_, _)
Euclid(a, b) == IF b = 0 THEN a ELSE Euclid(b, a % b)

\* np.gcd on two integers: the non-negative greatest common divisor.
Gcd(a, b) == Euclid(Abs(a), Abs(b))

RECURSIVE Pow(_, _)
Pow(b, e) == IF e = 0 THEN 1 ELSE b * Pow(b, e - 1)

\* A real number n/d in lowest terms.
Reduce(n, d, g) == IF n = 0 THEN <<0, 1>> ELSE <<n \div g, d \div g>>

Norm(n, d) == Reduce(n, d, Gcd(n, d))

\* A complex value with a non-zero imaginary part.  The model keeps only the
\* fact that it is complex: its digits are irrational.
Complex == <<0, 0>>

IsComplex(x) == x[2] = 0

Mul(x, y) ==
    IF IsComplex(x) \/ IsComplex(y) THEN Complex ELSE Norm(x[1] * y[1], x[2] * y[2])

Sub(x, y) ==
    IF IsComplex(x) \/ IsComplex(y) THEN Complex
    ELSE Norm(x[1] * y[2] - y[1] * x[2], x[2] * y[2])

\* The integer cube root of a perfect cube n >= 0.
ICbrt(n) == CHOOSE r \in 0..n : r * r * r = n

\* scale ** (1 / 3): the real cube root of a positive float, 0.0 of zero, and
\* the principal complex root of a negative float.
PowThird(scale) ==
    IF scale[1] < 0 THEN Complex
    ELSE Norm(ICbrt(scale[1]), ICbrt(scale[2]))

(***************************************************************************)
(* Characters and strings                                                  *)
(***************************************************************************)
Digits == <<"0", "1", "2", "3", "4", "5", "6", "7", "8", "9">>

IsDigit(c) == \E i \in 1..10 : Digits[i] = c

DigitVal(c) == (CHOOSE i \in 1..10 : Digits[i] = c) - 1

\* str.split() and the regular expression's \s: space, tab, newline.
IsSpace(c) == c \in {" ", "\t", "\n"}

AllDigits(s) == \A i \in 1..Len(s) : IsDigit(s[i])

\* The value of a string of decimal digits.
RECURSIVE DigitsVal(_)
DigitsVal(s) ==
    IF s = <<>> THEN 0
    ELSE 10 * DigitsVal(SubSeq(s, 1, Len(s) - 1)) + DigitVal(s[Len(s)])

\* The decimal digits of a natural number, at least one.
RECURSIVE NatStr(_)
NatStr(n) ==
    IF n < 10 THEN <<Digits[n + 1]>> ELSE NatStr(n \div 10) \o <<Digits[(n % 10) + 1]>>

\* The decimal digits of n padded with zeros on the left to width k.
RECURSIVE ZeroPad(_, _)
ZeroPad(s, k) == IF Len(s) >= k THEN s ELSE ZeroPad(<<"0">> \o s, k)

\* The position of the first occurrence of c in s, or Len(s) + 1.
FirstIndex(s, c) ==
    IF \E i \in 1..Len(s) : s[i] = c
    THEN CHOOSE i \in 1..Len(s) : s[i] = c /\ \A j \in 1..(i - 1) : s[j] # c
    ELSE Len(s) + 1

\* buffer.split("\n")
RECURSIVE SplitLines(_)
SplitLines(s) ==
    LET k == FirstIndex(s, "\n")
    IN  IF k > Len(s) THEN <<s>>
        ELSE <<SubSeq(s, 1, k - 1)>> \o SplitLines(SubSeq(s, k + 1, Len(s)))

\* "\n".join(lines)
RECURSIVE JoinLines(_)
JoinLines(lines) ==
    IF lines = <<>> THEN <<>>
    ELSE IF Len(lines) = 1 THEN lines[1]
    ELSE lines[1] \o <<"\n">> \o JoinLines(Tail(lines))

\* line.split(): the maximal runs of non-whitespace characters.
RECURSIVE SplitWs(_)
SplitWs(s) ==
    IF s = <<>> THEN <<>>
    ELSE IF IsSpace(s[1]) THEN SplitWs(Tail(s))
    ELSE LET n == IF \E i \in 1..Len(s) : IsSpace(s[i])
                  THEN CHOOSE i \in 1..Len(s) :
                           IsSpace(s[i]) /\ \A j \in 1..(i - 1) : ~IsSpace(s[j])
                  ELSE Len(s) + 1
         IN  <<SubSeq(s, 1, n - 1)>> \o SplitWs(SubSeq(s, n, Len(s)))

\* The result of a call: a value, or the exception it raised.
Ok(v) == [ok |-> TRUE, val |-> v]

Raise(e) == [ok |-> FALSE, err |-> e]

\* Exception propagation: r's value is handed on to K, r's exception is not.
Bind(r, K(_)) == IF r.ok THEN K(r.val) ELSE r

\* float(tok) on a token of the model's alphabet: an optional sign, then
\* digits with an optional point and fraction, or a point and digits.
\* (Exponents, "inf", "nan" and underscores need characters Init never puts
\* next to a number.)
ParseParts(ip, fp, neg) ==
    IF AllDigits(ip) /\ AllDigits(fp) /\ Len(ip) + Len(fp) > 0
    THEN Ok(Norm((IF neg THEN -1 ELSE 1)
                   * (DigitsVal(ip) * Pow(10, Len(fp)) + DigitsVal(fp)),
                 Pow(10, Len(fp))))
    ELSE Raise("ValueError")

ParseUnsigned(body, neg) ==
    ParseParts(SubSeq(body, 1, FirstIndex(body, ".") - 1),
               SubSeq(body, FirstIndex(body, ".") + 1, Len(body)), neg)

HasSign(tok) == tok # <<>> /\ tok[1] \in {"-", "+"}

ParseFloat(tok) ==
    ParseUnsigned(IF HasSign(tok) THEN Tail(tok) ELSE tok, tok # <<>> /\ tok[1] = "-")

\* int(tok): an optional sign and digits.
ParseIntBody(body, neg) ==
    IF body # <<>> /\ AllDigits(body)
    THEN Ok(IF neg THEN -DigitsVal(body) ELSE DigitsVal(body))
    ELSE Raise("ValueError")

ParseInt(tok) ==
    ParseIntBody(IF HasSign(tok) THEN Tail(tok) ELSE tok, tok # <<>> /\ tok[1] = "-")

\* The least k with d dividing 10^k (d is a product of 2s and 5s).
RECURSIVE DecimalPlaces(_, _)
DecimalPlaces(d, k) == IF Pow(10, k) % d = 0 THEN k ELSE DecimalPlaces(d, k + 1)

\* The decimal m / 10^k with its sign: at least one digit on each side of
\* the point.
FormatScaled(neg, m, k) ==
    (IF neg THEN <<"-">> ELSE <<>>) \o NatStr(m \div Pow(10, k)) \o <<".">>
    \o (IF k = 0 THEN <<"0">> ELSE ZeroPad(NatStr(m % Pow(10, k)), k))

FormatReal(x, k) == FormatScaled(x[1] < 0, Abs(x[1]) * (Pow(10, k) \div x[2]), k)

\* "{}".format(x) for a numpy float: the shortest decimal that reads back as
\* x, with at least one fractional digit ("2.0", "0.5", "-0.25").  A complex
\* value prints in parentheses with a trailing j.
FormatFloat(x) ==
    IF IsComplex(x) THEN <<"(", "1", "j", ")">>
    ELSE FormatReal(x, DecimalPlaces(x[2], 0))

(***************************************************************************)
(* Library calls the program makes                                         *)
(***************************************************************************)
\* template.format(arg) with one positional argument: "{{" and "}}" are
\* literal braces, "{}" is the next automatically numbered field, and any
\* other use of a brace raises (a lone brace: ValueError; a second "{}":
\* IndexError; a field name made of the model's characters: KeyError).
\* acc is the text produced so far, used the number of fields filled, i the
\* position reached and b the position of the next brace.
NextBrace(t, i) ==
    IF \E j \in i..Len(t) : t[j] \in {"{", "}"}
    THEN CHOOSE j \in i..Len(t) :
             t[j] \in {"{", "}"} /\ \A k \in i..(j - 1) : t[k] \notin {"{", "}"}
    ELSE Len(t) + 1

RECURSIVE StrFormatFrom(_, _, _, _, _)
StrFormatAt(t, i, b, arg, used, acc) ==
    IF b > Len(t) THEN Ok(acc \o SubSeq(t, i, Len(t)))
    ELSE IF b < Len(t) /\ t[b + 1] = t[b]
         THEN StrFormatFrom(t, b + 2, arg, used, acc \o SubSeq(t, i, b))
    ELSE IF t[b] = "}" THEN Raise("ValueError")
    ELSE IF b < Len(t) /\ t[b + 1] = "}"
         THEN IF used = 0
              THEN StrFormatFrom(t, b + 2, arg, 1, acc \o SubSeq(t, i, b - 1) \o arg)
              ELSE Raise("IndexError")
    ELSE IF \E j \in (b + 1)..Len(t) : t[j] = "}"
         THEN Raise("KeyError") ELSE Raise("ValueError")

StrFormatFrom(t, i, arg, used, acc) == StrFormatAt(t, i, NextBrace(t, i), arg, used, acc)

StrFormat(t, arg) == StrFormatFrom(t, 1, arg, 0, <<>>)

\* np.array(rows) for a list of lists of floats: a two-dimensional array
\* when the rows have one length, ValueError (inhomogeneous shape) otherwise.
NpArray(rows) ==
    IF \A i, j \in 1..Len(rows) : Len(rows[i]) = Len(rows[j])
    THEN Ok(rows) ELSE Raise("ValueError")

\* np.gcd.reduce(a).  An empty list makes a float64 array, for which gcd
\* has no loop (TypeError); one element is returned as it is.
RECURSIVE GcdReduce(_)
GcdReduce(a) ==
    IF Len(a) = 1 THEN a[1]
    ELSE Gcd(GcdReduce(SubSeq(a, 1, Len(a) - 1)), a[Len(a)])

NpGcdReduce(a) == IF a = <<>> THEN Raise("TypeError") ELSE Ok(GcdReduce(a))

\* lines[a:b] of Python, for 0 <= a <= b: the elements a .. b-1 that exist.
Slice(lines, a, b) ==
    SubSeq(lines, a + 1, IF b < Len(lines) THEN b ELSE Len(lines))

\* [float(num) for num in toks]: the values, or the ValueError of the first
\* token that is no number.
FloatList(toks) ==
    IF \E k \in 1..Len(toks) : ~ParseFloat(toks[k]).ok THEN Raise("ValueError")
    ELSE Ok([k \in 1..Len(toks) |-> ParseFloat(toks[k]).val])

\* [int(num) for num in toks]
IntList(toks) ==
    IF \E k \in 1..Len(toks) : ~ParseInt(toks[k]).ok THEN Raise("ValueError")
    ELSE Ok([k \in 1..Len(toks) |-> ParseInt(toks[k]).val])

\* [[float(num) for num in line.split()] for line in lines]
FloatRows(lines) ==
    IF \E k \in 1..Len(lines) : ~FloatList(SplitWs(lines[k])).ok THEN Raise("ValueError")
    ELSE Ok([k \in 1..Len(lines) |-> FloatList(SplitWs(lines[k])).val])

(***************************************************************************)
(* evxtb/xtb_ev.py                                                         *)
(***************************************************************************)
Label == <<"T", "O", "T", "A", "L", " ", "E", "N", "E", "R", "G", "Y">>

\* The length of the longest run of whitespace (of digits) starting at j.
SpaceRun(s, j) ==
    CHOOSE n \in 0..(Len(s) - j + 1) :
        /\ \A k \in j..(j + n - 1) : IsSpace(s[k])
        /\ (j + n > Len(s) \/ ~IsSpace(s[j + n]))

DigitRun(s, j) ==
    CHOOSE n \in 0..(Len(s) - j + 1) :
        /\ \A k \in j..(j + n - 1) : IsDigit(s[k])
        /\ (j + n > Len(s) \/ ~IsDigit(s[j + n]))

\* The pattern TOTAL ENERGY\s+(-?\d+\.\d+) tried at position i of s: the
\* text of group 1, or <<>> when the pattern does not match there.  Every
\* quantifier is greedy, and the classes it separates are disjoint, so the
\* greedy choice is the only one.  b is where group 1 starts, e where the
\* point must be.
MatchFraction(s, b, e) ==
    IF e < Len(s) /\ s[e] = "." /\ DigitRun(s, e + 1) >= 1
    THEN SubSeq(s, b, e + DigitRun(s, e + 1))
    ELSE <<>>

MatchDigits(s, b, c) ==
    IF c <= Len(s) /\ DigitRun(s, c) >= 1 THEN MatchFraction(s, b, c + DigitRun(s, c))
    ELSE <<>>

\* Group 1 without the optional sign: the pattern (\d+\.\d+).
MatchGroupUnsigned(s, b) == MatchDigits(s, b, b)

MatchGroup(s, b) == MatchDigits(s, b, IF b <= Len(s) /\ s[b] = "-" THEN b + 1 ELSE b)

MatchSpaces(s, a) ==
    IF a <= Len(s) /\ SpaceRun(s, a) >= 1 THEN MatchGroup(s, a + SpaceRun(s, a))
    ELSE <<>>

MatchAt(s, i) ==
    IF i + Len(Label) - 1 <= Len(s) /\ SubSeq(s, i, i + Len(Label) - 1) = Label
    THEN MatchSpaces(s, i + Len(Label))
    ELSE <<>>

\* match = re.search(pattern, xtb_output): the leftmost position that
\* matches.  float(match.group(1)): with no match, match is None and
\* match.group raises AttributeError.
FloatOfMatch(xtb_output, hits) ==
    IF hits = {} THEN Raise("AttributeError")
    ELSE ParseFloat(MatchAt(xtb_output, CHOOSE i \in hits : \A j \in hits : i <= j))

\* interpret_xtb returning 0.0 for an output without the energy line.
interpret_xtb_placeholder(xtb_output) ==
    IF \A i \in 1..Len(xtb_output) : MatchAt(xtb_output, i) = <<>>
    THEN Ok(<<0, 1>>)
    ELSE FloatOfMatch(xtb_output,
                      {i \in 1..Len(xtb_output) : MatchAt(xtb_output, i) # <<>>})

interpret_xtb(xtb_output) ==
    FloatOfMatch(xtb_output,
                 {i \in 1..Len(xtb_output) : MatchAt(xtb_output, i) # <<>>})

\* resize_lat scaling the lengths, not the volume: scale * array.
resize_lat_linear(array, scale) ==
    [r \in DOMAIN array |-> [c \in DOMAIN array[r] |-> Mul(scale, array[r][c])]]

\* scale ** (1 / 3) * array
resize_lat(array, scale) ==
    [r \in DOMAIN array |->
        [c \in DOMAIN array[r] |-> Mul(PowThird(scale), array[r][c])]]

\* "{}\t{}\t{}\n".format(*rows) for every row: numbers past the third of a
\* row are dropped.
RECURSIVE RowsText(_)
RowsText(array) ==
    IF array = <<>> THEN <<>>
    ELSE FormatFloat(array[1][1]) \o <<"\t">> \o FormatFloat(array[1][2]) \o <<"\t">>
         \o FormatFloat(array[1][3]) \o <<"\n">> \o RowsText(Tail(array))

\* s.rstrip("\n")
RStripNewlines(s) ==
    SubSeq(s, 1, IF \E i \in 1..Len(s) : s[i] # "\n"
                 THEN CHOOSE i \in 1..Len(s) :
                          s[i] # "\n" /\ \A j \in (i + 1)..Len(s) : s[j] = "\n"
                 ELSE 0)

\* format_array: a row of fewer than three numbers raises IndexError.
format_array(array) ==
    IF \E r \in 1..Len(array) : Len(array[r]) < 3 THEN Raise("IndexError")
    ELSE Ok(RStripNewlines(RowsText(array)))

Add(x, y) ==
    IF IsComplex(x) \/ IsComplex(y) THEN Complex
    ELSE Norm(x[1] * y[2] + y[1] * x[2], x[2] * y[2])

\* np.cross(a, b)
Cross(a, b) ==
    << Sub(Mul(a[2], b[3]), Mul(a[3], b[2])),
       Sub(Mul(a[3], b[1]), Mul(a[1], b[3])),
       Sub(Mul(a[1], b[2]), Mul(a[2], b[1])) >>

\* np.dot(a, b)
Dot(a, b) == Add(Add(Mul(a[1], b[1]), Mul(a[2], b[2])), Mul(a[3], b[3]))

\* np.dot(np.cross(a, b), c) on the rows of a 3 x 3 array.  Fewer than three
\* rows raise IndexError and rows that are not 3-vectors ValueError.
unit_vol(lat_params) ==
    IF Len(lat_params) < 3 THEN Raise("IndexError")
    ELSE IF Len(lat_params[1]) # 3 THEN Raise("ValueError")
    ELSE Ok(Dot(Cross(lat_params[1], lat_params[2]), lat_params[3]))

\* rest = lines[:2] + ["{}"] + lines[5:]; template = "\n".join(rest)
TemplateOf(lines) ==
    JoinLines(Slice(lines, 0, 2) \o <<<<"{", "}">>>> \o Slice(lines, 5, Len(lines)))

\* VaspHandler.read_vasp_lat on the text of the file: the lattice matrix
\* from lines 2-4 and the template with "{}" in their place.
read_vasp_lat(buffer) ==
    Bind(FloatRows(Slice(SplitLines(buffer), 2, 5)), LAMBDA rows :
    Bind(NpArray(rows), LAMBDA lat_params :
    Ok([lat_params |-> lat_params, template |-> TemplateOf(SplitLines(buffer))])))

\* elem = lines[6]; row = [int(num) for num in elem.split()]
CountsOf(lines) ==
    IF Len(lines) < 7 THEN Raise("IndexError") ELSE IntList(SplitWs(lines[7]))

\* VaspHandler.read_vasp_repeats: the integers of line 6.
read_vasp_repeats(buffer) == CountsOf(SplitLines(buffer))

\* find_repeat_unit taking the smallest count for the number of units.
find_repeat_unit_smallest(buffer) ==
    Bind(read_vasp_lat(buffer), LAMBDA handler :
    Bind(read_vasp_repeats(buffer), LAMBDA chem_ints :
    IF chem_ints = <<>> THEN Raise("ValueError")
    ELSE Ok(CHOOSE m \in {chem_ints[k] : k \in 1..Len(chem_ints)} :
                \A k \in 1..Len(chem_ints) : m <= chem_ints[k])))

\* find_repeat_unit: a handler of its own on the same file, then the gcd of
\* the counts.
find_repeat_unit(buffer) ==
    Bind(read_vasp_lat(buffer), LAMBDA handler :
    Bind(read_vasp_repeats(buffer), LAMBDA chem_ints :
    NpGcdReduce(chem_ints)))

\* VaspHandler.write_vasp: the text written to the file.
write_vasp(handler, sf) ==
    Bind(format_array(resize_lat(handler.lat_params, sf)), LAMBDA formatted :
    StrFormat(handler.template, formatted))

(***************************************************************************)
(* The external engine                                                     *)
(***************************************************************************)
Alphabet ==
    Digits \o <<".", "-", "\t", "\n", " ", "{", "}", "(", ")", "j", "a", "T", "i", "D">>

Code(c) == IF \E i \in 1..Len(Alphabet) : Alphabet[i] = c
           THEN CHOOSE i \in 1..Len(Alphabet) : Alphabet[i] = c
           ELSE 0

\* A position-weighted sum of the characters lo..hi of s.
RECURSIVE Checksum(_, _, _)
Checksum(s, lo, hi) ==
    IF lo > hi THEN 0
    ELSE IF lo = hi THEN (lo * lo * Code(s[lo])) % 251
    ELSE (Checksum(s, lo, (lo + hi) \div 2) + Checksum(s, ((lo + hi) \div 2) + 1, hi)) % 251

\* The total energy the engine computes for the structure file it is given:
\* a deterministic function of the file's text (a negative multiple of 1/8).
XtbEnergy(text) == Norm(-(Checksum(text, 1, Len(text)) + 1), 8)

\* The standard output of xtb --gfn 0 on a file: a summary holding the
\* TOTAL ENERGY line when the calculation ran, and no such line otherwise.
XtbStdout(text, outcome) ==
    IF outcome = "energy"
    THEN <<"x", "\n">> \o Label \o <<" ", " ">> \o FormatFloat(XtbEnergy(text))
         \o <<" ", "E", "h", "\n">>
    ELSE <<"x", "\n">>

\* What one invocation of the engine can do: fail to start (no xtb binary),
\* run without printing an energy, or print the energy.
EngineOutcomes == {"nolaunch", "noenergy", "energy"}

\* run_xtb(fname): subprocess.run raises FileNotFoundError when the binary
\* cannot be started, and the captured stdout is returned otherwise, whatever
\* the exit status.
run_xtb(text, outcome) ==
    IF outcome = "nolaunch" THEN Raise("FileNotFoundError")
    ELSE Ok(XtbStdout(text, outcome))

\* x / k for a float x and a non-zero integer k.
DivInt(x, k) == IF k < 0 THEN Norm(-x[1], x[2] * (-k)) ELSE Norm(x[1], x[2] * k)

(***************************************************************************)
(* Inputs                                                                  *)
(***************************************************************************)
MaxSfs == 3

\* Scale factors: 0.125 and 3.375, and the non-positive 0 and -1.
ScaleFactors == {<<1, 8>>, <<27, 8>>, <<0, 1>>, <<-1, 1>>}

SfsOfLen(n) == [1..n -> ScaleFactors]

SfsChoices == UNION {SfsOfLen(n) : n \in 0..MaxSfs}

Half == <<1, 2>>
Zero == <<0, 1>>
One == <<1, 1>>
Two == <<2, 1>>

GoodLattices ==
    { <<<<One, Zero, Zero>>, <<Zero, One, Zero>>, <<Zero, Zero, One>>>>,
      <<<<Two, Zero, Zero>>, <<Half, One, Zero>>, <<Zero, Zero, <<3, 2>>>>>>,
      <<<<One, One, Zero>>, <<Zero, One, One>>, <<One, Zero, One>>>> }

\* The text of a row of numbers, separated by single spaces.
RECURSIVE RowText(_)
RowText(row) ==
    IF Len(row) = 1 THEN FormatFloat(row[1])
    ELSE FormatFloat(row[1]) \o <<" ">> \o RowText(Tail(row))

LatticeText(m) == [r \in 1..Len(m) |-> RowText(m[r])]

\* Lattice blocks that deviate from the layout: four numbers on every line,
\* a token that is no number, and a line of two numbers.
BadLatticeTexts ==
    { <<RowText(<<One, Zero, Zero, Two>>), RowText(<<Zero, One, Zero, Two>>),
        RowText(<<Zero, Zero, One, Two>>)>>,
      <<RowText(<<One, Zero, Zero>>), <<"0", ".", "0", " ", "a", " ", "0", ".", "0">>,
        RowText(<<Zero, Zero, One>>)>>,
      <<RowText(<<One, Zero, Zero>>), RowText(<<Zero, One>>),
        RowText(<<Zero, Zero, One>>)>> }

\* A lattice block written as a user may write it: "2", "0.50", ".5".
LooseLatticeText ==
    << <<"2", " ", "0", " ", "0">>,
       <<"0", ".", "5", "0", " ", "1", " ", "0">>,
       <<"0", " ", ".", "5", " ", "1", ".", "5">> >>

Headers == { <<"a">>, <<"{", "}">>, <<"{", "{", "a">>, <<"{", "a", "}">> }

GoodCounts == { <<"6", " ", "9">>, <<"4">> }

BadCounts == { <<>>, <<"6", " ", "a">> }

\* A structure file: comment, scale, three lattice lines, species, counts,
\* coordinate mode, one coordinate line.
FileLines(header, lat, counts) ==
    <<header, <<"1", ".", "0">>>> \o lat
    \o << <<"T", "i">>, counts, <<"D">>, <<"0", " ", "0", " ", "0">> >>

MkFile(header, lat, counts) == JoinLines(FileLines(header, lat, counts))

BaseLattice == <<<<One, Zero, Zero>>, <<Zero, One, Zero>>, <<Zero, Zero, One>>>>

\* Files cut short: three lines (one lattice row) and six (no counts line).
ShortFiles ==
    { JoinLines(SubSeq(FileLines(<<"a">>, LatticeText(BaseLattice), <<"4">>), 1, k))
        : k \in {3, 6} }

WellFormedFiles ==
    {MkFile(h, LatticeText(m), c) : h \in Headers, m \in GoodLattices, c \in GoodCounts}
    \cup {MkFile(<<"a">>, LooseLatticeText, <<"6", " ", "9">>)}

DeviatingFiles ==
    {MkFile(<<"a">>, t, <<"6", " ", "9">>) : t \in BadLatticeTexts}
    \cup {MkFile(<<"a">>, LatticeText(BaseLattice), c) : c \in BadCounts}
    \cup ShortFiles

Files == WellFormedFiles \cup DeviatingFiles

(***************************************************************************)
(* State                                                                   *)
(***************************************************************************)
Runs == {1, 2}

VARIABLES
    run,    \* run[r]: the local state of the r-th call of xtbev
    temp,   \* the file "temp.vasp" of the working directory
    arg,    \* the argument of a function applied on its own
    res     \* its result

vars == <<run, temp, arg, res>>

NoFile == [exists |-> FALSE, text |-> <<>>]

\* A call of xtbev(fname, sfs) about to start; input is the text of fname.
Fresh(input, sfs) ==
    [pc |-> "start", input |-> input, sfs |-> sfs,
     lat_params |-> <<>>, template |-> <<>>, rnum |-> 0, i |-> 1,
     out |-> <<>>, energies |-> <<>>, volumes |-> <<>>, err |-> "none",
     at |-> "none", wrote |-> <<>>, read |-> <<>>, launches |-> 0]

Idle == [Fresh(<<>>, <<>>) EXCEPT !.pc = "idle"]

\* An exception leaves xtbev: nothing is returned, and nothing of the call
\* runs any more.  err is the exception and at the statement that raised it.
Abort(r, e) ==
    run' = [run EXCEPT ![r].pc = "error", ![r].err = e, ![r].at = run[r].pc]

\* vasp_handler = VaspHandler(fname)
Construct(r) ==
    /\ run[r].pc = "start"
    /\ \E h \in {read_vasp_lat(run[r].input)} :
           IF h.ok
           THEN run' = [run EXCEPT ![r].pc = "count",
                                   ![r].lat_params = h.val.lat_params,
                                   ![r].template = h.val.template]
           ELSE Abort(r, h.err)
    /\ UNCHANGED <<temp, arg, res>>

\* rnum = find_repeat_unit(fname)
FindRepeatUnit(r) ==
    /\ run[r].pc = "count"
    /\ \E u \in {find_repeat_unit(run[r].input)} :
           IF u.ok
           THEN run' = [run EXCEPT ![r].pc = "loop", ![r].rnum = u.val]
           ELSE Abort(r, u.err)
    /\ UNCHANGED <<temp, arg, res>>

\* write_vasp storing the scaled lattice in the handler (self.lat_params =
\* resize_lat(self.lat_params, sf)), so that the factors accumulate.
WriteVaspAccumulating(r) ==
    /\ run[r].pc = "loop"
    /\ run[r].i <= Len(run[r].sfs)
    /\ \E w \in {write_vasp([lat_params |-> run[r].lat_params,
                             template |-> run[r].template], run[r].sfs[run[r].i])} :
           IF w.ok
           THEN /\ temp' = [exists |-> TRUE, text |-> w.val]
                /\ run' = [run EXCEPT ![r].pc = "run",
                                      ![r].wrote = Append(@, w.val),
                                      ![r].lat_params =
                                          resize_lat(@, run[r].sfs[run[r].i])]
           ELSE /\ Abort(r, w.err)
                /\ UNCHANGED temp
    /\ UNCHANGED <<arg, res>>

\* vasp_handler.write_vasp(sf, "temp.vasp") for the next sf of sfs
WriteVasp(r) ==
    /\ run[r].pc = "loop"
    /\ run[r].i <= Len(run[r].sfs)
    /\ \E w \in {write_vasp([lat_params |-> run[r].lat_params,
                             template |-> run[r].template], run[r].sfs[run[r].i])} :
           IF w.ok
           THEN /\ temp' = [exists |-> TRUE, text |-> w.val]
                /\ run' = [run EXCEPT ![r].pc = "run",
                                      ![r].wrote = Append(@, w.val)]
           ELSE /\ Abort(r, w.err)
                /\ UNCHANGED temp
    /\ UNCHANGED <<arg, res>>

\* run_xtb("temp.vasp"): the engine reads the file as it is now
RunXtb(r) ==
    /\ run[r].pc = "run"
    /\ \E outcome \in EngineOutcomes :
         \E o \in {run_xtb(temp.text, outcome)} :
             IF o.ok
             THEN run' = [run EXCEPT ![r].pc = "interpret",
                                     ![r].out = o.val,
                                     ![r].read = Append(@, temp.text),
                                     ![r].launches = @ + 1]
             ELSE Abort(r, o.err)
    /\ UNCHANGED <<temp, arg, res>>

\* energies.append(interpret_xtb(...) / rnum)
Interpret(r) ==
    /\ run[r].pc = "interpret"
    /\ \E e \in {interpret_xtb(run[r].out)} :
           IF e.ok
           THEN run' = [run EXCEPT ![r].pc = "volume",
                                   ![r].energies = Append(@, DivInt(e.val, run[r].rnum))]
           ELSE Abort(r, e.err)
    /\ UNCHANGED <<temp, arg, res>>

\* The volume taken from the lattice of the file "temp.vasp" as it is now.
VolumeOfTempFile(r) ==
    /\ run[r].pc = "volume"
    /\ \E v \in {Bind(read_vasp_lat(temp.text), LAMBDA h : unit_vol(h.lat_params))} :
           IF v.ok
           THEN run' = [run EXCEPT ![r].pc = "loop",
                                   ![r].volumes = Append(@, v.val),
                                   ![r].i = @ + 1]
           ELSE Abort(r, v.err)
    /\ UNCHANGED <<temp, arg, res>>

\* volumes.append(unit_vol(vasp_handler.lat_params) * sf)
Volume(r) ==
    /\ run[r].pc = "volume"
    /\ \E v \in {unit_vol(run[r].lat_params)} :
           IF v.ok
           THEN run' = [run EXCEPT ![r].pc = "loop",
                                   ![r].volumes = Append(@, Mul(v.val, run[r].sfs[run[r].i])),
                                   ![r].i = @ + 1]
           ELSE Abort(r, v.err)
    /\ UNCHANGED <<temp, arg, res>>

\* return volumes, energies
Return(r) ==
    /\ run[r].pc = "loop"
    /\ run[r].i > Len(run[r].sfs)
    /\ run' = [run EXCEPT ![r].pc = "done"]
    /\ UNCHANGED <<temp, arg, res>>

Step(r) ==
    \/ Construct(r)
    \/ FindRepeatUnit(r)
    \/ WriteVasp(r)
    \/ RunXtb(r)
    \/ Interpret(r)
    \/ Volume(r)
    \/ Return(r)

NoCall == [op |-> "none"]

\* One call of xtbev in a working directory of its own.
Init ==
    /\ \E f \in Files, s \in SfsChoices : run = [r \in Runs |-> IF r = 1 THEN Fresh(f, s) ELSE Idle]
    /\ temp = NoFile
    /\ arg = NoCall
    /\ res = NoCall

Next == \E r \in Runs : Step(r)

Spec == Init /\ [][Next]_vars

(***************************************************************************)
(* Two calls of xtbev in one working directory                             *)
(***************************************************************************)
MaxRaceSfs == 1

RaceFactors == {<<1, 8>>, <<27, 8>>}

RaceSfs == UNION {[1..n -> RaceFactors] : n \in 1..MaxRaceSfs}

\* The input of each of the two calls.
RaceFile(r) ==
    IF r = 1
    THEN MkFile(<<"a">>, LatticeText(BaseLattice), <<"4">>)
    ELSE MkFile(<<"a">>,
                LatticeText(<<<<Two, Zero, Zero>>, <<Half, One, Zero>>,
                              <<Zero, Zero, <<3, 2>>>>>>),
                <<"6", " ", "9">>)

InitRace ==
    /\ \E s \in [Runs -> RaceSfs] : run = [r \in Runs |-> Fresh(RaceFile(r), s[r])]
    /\ temp = NoFile
    /\ arg = NoCall
    /\ res = NoCall

SpecRace == InitRace /\ [][Next]_vars

(***************************************************************************)
(* The functions on their own                                              *)
(***************************************************************************)
Strings(S, n) == UNION {[1..k -> S] : k \in 0..n}

\* interpret_xtb(xtb_output) on outputs made of a prefix, the label or a
\* near miss of it, a gap, the characters of a number, and a suffix.
MaxNumLen == 4

Gaps == { <<>>, <<" ">>, <<"\n">>, <<" ", " ">>, <<" ", "\n">> }

OutputPrefixes ==
    { <<>>, <<"x", "\n">>, Label \o <<" ", "x", "\n">>,
      Label \o <<" ", "2", ".", "5", "\n">> }

OutputLabels == { Label, <<"T", "O", "T", "A", "L", "E", "N", "E", "R", "G", "Y">> }

OutputSuffixes == { <<>>, <<" ", "E", "h">>, <<"7">> }

Outputs ==
    { p \o l \o g \o n \o e :
        p \in OutputPrefixes, l \in OutputLabels, g \in Gaps,
        n \in Strings({"-", "7", "."}, MaxNumLen), e \in OutputSuffixes }

InitExtract ==
    /\ run = [r \in Runs |-> Idle]
    /\ temp = NoFile
    /\ arg \in {[op |-> "interpret_xtb", xtb_output |-> o] : o \in Outputs}
    /\ res = NoCall

CallInterpretXtb ==
    /\ arg.op = "interpret_xtb"
    /\ res = NoCall
    /\ res' = [op |-> "interpret_xtb", out |-> interpret_xtb(arg.xtb_output)]
    /\ UNCHANGED <<run, temp, arg>>

SpecExtract == InitExtract /\ [][CallInterpretXtb]_vars

\* find_repeat_unit(fname) on files whose line 6 holds the given counts.
MaxSpecies == 3

MaxCount == 12

RECURSIVE CountsText(_)
CountsText(counts) ==
    IF counts = <<>> THEN <<>>
    ELSE IF Len(counts) = 1 THEN NatStr(counts[1])
    ELSE NatStr(counts[1]) \o <<" ">> \o CountsText(Tail(counts))

InitGcd ==
    /\ run = [r \in Runs |-> Idle]
    /\ temp = NoFile
    /\ arg \in {[op |-> "find_repeat_unit", counts |-> c,
                 buffer |-> MkFile(<<"a">>, LatticeText(BaseLattice), CountsText(c))] :
                    c \in UNION {[1..n -> 1..MaxCount] : n \in 0..MaxSpecies}}
    /\ res = NoCall

CallFindRepeatUnit ==
    /\ arg.op = "find_repeat_unit"
    /\ res = NoCall
    /\ res' = [op |-> "find_repeat_unit", out |-> find_repeat_unit(arg.buffer)]
    /\ UNCHANGED <<run, temp, arg>>

SpecGcd == InitGcd /\ [][CallFindRepeatUnit]_vars

\* resize_lat(array, scale) on lattices with a diagonal of 1, 1.5 or -0.5 and
\* 0 or 0.5 elsewhere, and scale factors (p/q)^3.
MaxRoot == 3

ScaleArgs == {Norm(p * p * p, q * q * q) : p \in 1..MaxRoot, q \in 1..2}

Diagonal == {One, <<3, 2>>, <<-1, 2>>}

OffDiagonal == {Zero, Half}

Lattices ==
    { <<<<a, u, v>>, <<w, b, x>>, <<y, z, c>>>> :
        a \in Diagonal, b \in Diagonal, c \in Diagonal,
        u \in OffDiagonal, v \in OffDiagonal, w \in OffDiagonal,
        x \in OffDiagonal, y \in OffDiagonal, z \in OffDiagonal }

InitScale ==
    /\ run = [r \in Runs |-> Idle]
    /\ temp = NoFile
    /\ arg \in {[op |-> "resize_lat", array |-> m, scale |-> s] :
                    m \in Lattices, s \in ScaleArgs}
    /\ res = NoCall

CallResizeLat ==
    /\ arg.op = "resize_lat"
    /\ res = NoCall
    /\ res' = [op |-> "resize_lat", out |-> resize_lat(arg.array, arg.scale)]
    /\ UNCHANGED <<run, temp, arg>>

SpecScale == InitScale /\ [][CallResizeLat]_vars

(***************************************************************************)
(* One call of xtbev: what the text of the input file makes of it          *)
(***************************************************************************)
IsPositive(x) == ~IsComplex(x) /\ x[1] > 0

NumbersOn(line) == \A k \in 1..Len(SplitWs(line)) : ParseFloat(SplitWs(line)[k]).ok

IntegersOn(line) == \A k \in 1..Len(SplitWs(line)) : ParseInt(SplitWs(line)[k]).ok

\* The layout of a structure file: at least seven lines, three numbers on
\* each of the lines 2-4 and one or more positive integers on line 6.
WellFormedLines(lines) ==
    /\ Len(lines) >= 7
    /\ \A l \in 3..5 : Len(SplitWs(lines[l])) = 3 /\ NumbersOn(lines[l])
    /\ SplitWs(lines[7]) # <<>>
    /\ IntegersOn(lines[7])
    /\ \A k \in 1..Len(SplitWs(lines[7])) : ParseInt(SplitWs(lines[7])[k]).val > 0

WellFormed(text) == WellFormedLines(SplitLines(text))

\* The deviations from the layout: fewer than seven lines, a token that is
\* no number on the lines 2-4 or on line 6, a lattice line that does not hold
\* exactly three numbers.
DeviatesLines(lines) ==
    \/ Len(lines) < 7
    \/ \E l \in 3..5 : Len(SplitWs(lines[l])) # 3 \/ ~NumbersOn(lines[l])
    \/ ~IntegersOn(lines[7])

Deviates(text) == DeviatesLines(SplitLines(text))

\* The lattice of a well-formed file and its number of repeat units.
LatticeOf(text) == read_vasp_lat(text).val.lat_params

RepeatsOf(text) == find_repeat_unit(text).val

\* The file of the input with its lattice scaled by sf: the lines of the
\* input, each as it is, but for the lines 2-4, which hold the scaled lattice.
ScaledFile(text, sf) ==
    JoinLines(SubSeq(SplitLines(text), 1, 2)
              \o SplitLines(format_array(resize_lat(LatticeOf(text), sf)).val)
              \o SubSeq(SplitLines(text), 6, Len(SplitLines(text))))

AllPositive(sfs) == \A k \in 1..Len(sfs) : IsPositive(sfs[k])

\* C1: for a structure file that parses and positive scale factors, with an
\* engine that computes a deterministic energy for every file it is given,
\* xtbev returns two lists as long as sfs, in the order of sfs:
\* volumes[i] = sfs[i] * (volume of the original lattice) and
\* energies[i] = E(the input with its lattice scaled by sfs[i]) / rnum.
C1_ReturnsPointPerFactor ==
    \A r \in Runs :
        (run[r].pc # "idle" /\ WellFormed(run[r].input) /\ AllPositive(run[r].sfs)) =>
            /\ run[r].pc = "error" => run[r].at \in {"run", "interpret"}
            /\ run[r].pc = "done" =>
                /\ Len(run[r].volumes) = Len(run[r].sfs)
                /\ Len(run[r].energies) = Len(run[r].sfs)
                /\ \A k \in 1..Len(run[r].sfs) :
                    /\ run[r].volumes[k]
                         = Mul(unit_vol(LatticeOf(run[r].input)).val, run[r].sfs[k])
                    /\ run[r].energies[k]
                         = DivInt(XtbEnergy(ScaledFile(run[r].input, run[r].sfs[k])),
                                  RepeatsOf(run[r].input))

\* What of C1 the code does: when the header and the other lines it copies
\* hold no brace, the call returns the points of C1 unless the engine fails.
BraceFree(text) == \A k \in 1..Len(text) : text[k] \notin {"{", "}"}

C1_HoldsWithoutBraces ==
    \A r \in Runs :
        (run[r].pc # "idle" /\ WellFormed(run[r].input) /\ AllPositive(run[r].sfs)
         /\ BraceFree(run[r].input)) =>
            /\ run[r].pc = "error" => run[r].at \in {"run", "interpret"}
            /\ run[r].pc = "done" =>
                /\ Len(run[r].volumes) = Len(run[r].sfs)
                /\ Len(run[r].energies) = Len(run[r].sfs)
                /\ \A k \in 1..Len(run[r].sfs) :
                    /\ run[r].volumes[k]
                         = Mul(unit_vol(LatticeOf(run[r].input)).val, run[r].sfs[k])
                    /\ run[r].energies[k]
                         = DivInt(XtbEnergy(ScaledFile(run[r].input, run[r].sfs[k])),
                                  RepeatsOf(run[r].input))

\* C2: a failure while the k-th scale factor is evaluated ends the call: a
\* call that has failed does nothing more (no engine invocation for a later
\* factor, no result), the failing step appends nothing, every energy that
\* is appended is the energy the engine printed for the file it read, divided
\* by rnum (never a placeholder), and a result is returned only after every
\* factor has been evaluated.
C2_Step(r) ==
    /\ run[r].pc = "error" => run'[r] = run[r]
    /\ (run'[r].pc = "error" /\ run[r].pc # "error") =>
        /\ run'[r].energies = run[r].energies
        /\ run'[r].volumes = run[r].volumes
        /\ run'[r].launches = run[r].launches
    /\ run'[r].energies # run[r].energies =>
        /\ run[r].read # <<>>
        /\ run'[r].energies
             = Append(run[r].energies,
                      DivInt(XtbEnergy(run[r].read[Len(run[r].read)]), run[r].rnum))
        /\ \E i \in 1..Len(run[r].out) :
               SubSeq(run[r].out, i, i + Len(Label) - 1) = Label
    /\ (run'[r].pc = "done" /\ run[r].pc # "done") =>
        /\ Len(run[r].energies) = Len(run[r].sfs)
        /\ Len(run[r].volumes) = Len(run[r].sfs)

C2_FailureAborts == [][\A r \in Runs : C2_Step(r)]_vars

\* The engine fails on the second of three factors, after one point.
C2_Witness ==
    /\ run[1].pc = "error"
    /\ run[1].at \in {"run", "interpret"}
    /\ run[1].i = 2
    /\ Len(run[1].sfs) = 3
    /\ Len(run[1].energies) = 1
    /\ Len(run[1].volumes) = 1

\* C4: a scale factor s <= 0 is rejected: no file is ever written for it.
C4_NonPositiveRejected ==
    \A r \in Runs : \A k \in 1..Len(run[r].wrote) : IsPositive(run[r].sfs[k])

\* C5: a file that deviates from the layout is a parse failure: the handler
\* is not constructed or the counts are not read, so the call never gets to
\* its loop over the scale factors.
C5_DeviationFailsParse ==
    \A r \in Runs :
        (run[r].pc # "idle" /\ Deviates(run[r].input)) =>
            /\ run[r].pc \in {"start", "count", "error"}
            /\ run[r].pc = "error" => run[r].at \in {"start", "count"}

\* The file out is the file text with its lattice scaled by sf and nothing
\* else changed.
RoundTrip(text, sf, out) ==
    /\ Len(SplitLines(out)) = Len(SplitLines(text))
    /\ \A l \in 1..Len(SplitLines(text)) :
           l \notin 3..5 => SplitLines(out)[l] = SplitLines(text)[l]
    /\ \A l \in 3..5 :
        /\ Len(SplitWs(SplitLines(out)[l])) = 3
        /\ NumbersOn(SplitLines(out)[l])
        /\ Len(SelectSeq(SplitLines(out)[l], LAMBDA c : c = "\t")) = 2
        /\ \A k \in 1..Len(SplitLines(out)[l]) :
               SplitLines(out)[l][k] \notin {"[", "]", ","}
    /\ read_vasp_lat(out).ok
    /\ read_vasp_lat(out).val.lat_params = resize_lat(LatticeOf(text), sf)
    /\ read_vasp_lat(out).val.template = read_vasp_lat(text).val.template
    /\ read_vasp_repeats(out) = read_vasp_repeats(text)

\* C8: for any file that parses and any s > 0, write_vasp produces a file
\* whose lines 2-4 are three tab-separated numbers each and that parses to
\* the original lattice scaled by s^(1/3), the same template and the same
\* species counts.
C8_WriteParseRoundTrip ==
    \A r \in Runs :
        (run[r].pc # "idle" /\ WellFormed(run[r].input)) =>
            \A k \in 1..Len(run[r].sfs) :
                IsPositive(run[r].sfs[k]) =>
                    /\ ~(run[r].pc = "error" /\ run[r].at = "loop" /\ run[r].i = k)
                    /\ k <= Len(run[r].wrote) =>
                           RoundTrip(run[r].input, run[r].sfs[k], run[r].wrote[k])

\* What of C8 the code does: the round trip of a file without braces.
C8_HoldsWithoutBraces ==
    \A r \in Runs :
        (run[r].pc # "idle" /\ WellFormed(run[r].input) /\ BraceFree(run[r].input)) =>
            \A k \in 1..Len(run[r].sfs) :
                IsPositive(run[r].sfs[k]) =>
                    /\ ~(run[r].pc = "error" /\ run[r].at = "loop" /\ run[r].i = k)
                    /\ k <= Len(run[r].wrote) =>
                           RoundTrip(run[r].input, run[r].sfs[k], run[r].wrote[k])

\* C10: write_vasp leaves the handler as it was constructed: after any
\* number of calls lat_params and template are the ones parsed from the
\* input, and every file written is the one the freshly constructed handler
\* writes for that call's factor alone.
C10_Frame(r, parsed) ==
    (run[r].pc \notin {"idle", "start"} /\ parsed.ok) =>
        /\ run[r].lat_params = parsed.val.lat_params
        /\ run[r].template = parsed.val.template
        /\ \A k \in 1..Len(run[r].wrote) :
               Ok(run[r].wrote[k]) = write_vasp(parsed.val, run[r].sfs[k])

C10_HandlerUnchanged == \A r \in Runs : C10_Frame(r, read_vasp_lat(run[r].input))

\* Three files written, for factors that differ.
C10_Witness ==
    /\ Len(run[1].wrote) = 3
    /\ run[1].sfs[1] # run[1].sfs[2]
    /\ run[1].sfs[2] # run[1].sfs[3]
    /\ run[1].wrote[1] # run[1].wrote[3]
    /\ run[1].lat_params = LatticeOf(run[1].input)

(***************************************************************************)
(* The functions on their own: what they return                            *)
(***************************************************************************)
Unsigned(n) == IF n # <<>> /\ n[1] = "-" THEN Tail(n) ELSE n

\* An optional minus sign, digits, a point, digits.
IsSignedDecimal(n) ==
    \E p \in 2..(Len(Unsigned(n)) - 1) :
        /\ Unsigned(n)[p] = "."
        /\ \A q \in 1..Len(Unsigned(n)) : q # p => IsDigit(Unsigned(n)[q])

DecimalValue(b, p) ==
    Norm(DigitsVal(SubSeq(b, 1, p - 1)) * Pow(10, Len(b) - p)
           + DigitsVal(SubSeq(b, p + 1, Len(b))),
         Pow(10, Len(b) - p))

SignedDecimalValue(n) ==
    IF n[1] = "-"
    THEN Sub(<<0, 1>>, DecimalValue(Tail(n), FirstIndex(Tail(n), ".")))
    ELSE DecimalValue(n, FirstIndex(n, "."))

\* In s the label starts at i, whitespace and nothing else lies between the
\* label and j, and a signed decimal that no digit continues lies at j..e.
LabelledNumber(s, i, j, e) ==
    /\ i + Len(Label) - 1 <= Len(s)
    /\ SubSeq(s, i, i + Len(Label) - 1) = Label
    /\ i + Len(Label) < j
    /\ \A q \in (i + Len(Label))..(j - 1) : IsSpace(s[q])
    /\ IsSignedDecimal(SubSeq(s, j, e))
    /\ (e = Len(s) \/ ~IsDigit(s[e + 1]))

LabelledAt(s, i) ==
    \E j \in (i + 1)..Len(s) : \E e \in j..Len(s) : LabelledNumber(s, i, j, e)

\* C3: interpret_xtb returns the signed decimal number that follows the
\* first "TOTAL ENERGY" label followed by whitespace and such a number; when
\* the output holds no such label and number the call fails with
\* AttributeError and returns nothing, in particular no sentinel value.
C3_Extraction ==
    res.op = "interpret_xtb" =>
        IF \E i \in 1..Len(arg.xtb_output) : LabelledAt(arg.xtb_output, i)
        THEN \E i \in 1..Len(arg.xtb_output) :
                /\ \A h \in 1..(i - 1) : ~LabelledAt(arg.xtb_output, h)
                /\ \E j \in (i + 1)..Len(arg.xtb_output) :
                     \E e \in j..Len(arg.xtb_output) :
                        /\ LabelledNumber(arg.xtb_output, i, j, e)
                        /\ res.out = Ok(SignedDecimalValue(SubSeq(arg.xtb_output, j, e)))
        ELSE res.out = Raise("AttributeError")

\* A label without a number, then a label with a negative one: -7.7.
C3_Witness ==
    /\ res.op = "interpret_xtb"
    /\ Len(arg.xtb_output) > Len(Label) + 3
    /\ SubSeq(arg.xtb_output, 1, Len(Label) + 3) = Label \o <<" ", "x", "\n">>
    /\ res.out = Ok(<<-77, 10>>)

\* C6: find_repeat_unit returns the greatest common divisor of the counts
\* of line 6 (it divides every count and no common divisor is larger), and
\* fails, returning nothing, when the line holds no count.
C6_RepeatUnitIsGcd ==
    res.op = "find_repeat_unit" =>
        IF arg.counts = <<>> THEN ~res.out.ok
        ELSE /\ res.out.ok
             /\ res.out.val >= 1
             /\ \A k \in 1..Len(arg.counts) : arg.counts[k] % res.out.val = 0
             /\ \A d \in 1..arg.counts[1] :
                    (\A k \in 1..Len(arg.counts) : arg.counts[k] % d = 0)
                        => d <= res.out.val

C6_Witness ==
    /\ res.op = "find_repeat_unit"
    /\ arg.counts = <<6, 9>>
    /\ res.out = Ok(3)

\* The handler of a file whose lattice is array.
HandlerOf(array) == read_vasp_lat(MkFile(<<"a">>, LatticeText(array), <<"4">>)).val

\* C7: resize_lat multiplies every component by one factor whose cube is
\* the scale, unit_vol of the result is the scale times unit_vol of the
\* argument, and so the volume xtbev records, unit_vol(lat_params) * sf, is
\* the volume of the lattice that write_vasp puts in the file.
C7_VolumeScales ==
    res.op = "resize_lat" =>
        /\ \E f \in {Norm(p, q) : p \in 1..MaxRoot, q \in 1..2} :
            /\ Mul(f, Mul(f, f)) = arg.scale
            /\ \A r \in 1..3 : \A c \in 1..3 : res.out[r][c] = Mul(f, arg.array[r][c])
        /\ unit_vol(res.out) = Ok(Mul(arg.scale, unit_vol(arg.array).val))
        /\ \E w \in {write_vasp(HandlerOf(arg.array), arg.scale)} :
            /\ w.ok
            /\ unit_vol(read_vasp_lat(w.val).val.lat_params)
                 = Ok(Mul(unit_vol(arg.array).val, arg.scale))

\* The identity scaled by 8 is twice the identity, of volume 8.
C7_Witness ==
    /\ res.op = "resize_lat"
    /\ arg.array = BaseLattice
    /\ arg.scale = <<8, 1>>
    /\ res.out = <<<<Two, Zero, Zero>>, <<Zero, Two, Zero>>, <<Zero, Zero, Two>>>>
    /\ unit_vol(res.out) = Ok(<<8, 1>>)

(***************************************************************************)
(* Two calls of xtbev in one working directory: the shared file            *)
(***************************************************************************)
FilesWrittenBy(r) == {run[r].wrote[j] : j \in 1..Len(run[r].wrote)}

\* C9: both calls write and read the one file "temp.vasp": the energy a
\* call appends is the energy of the file as it was when its engine ran,
\* which is the file the call wrote or a file the other call wrote, while
\* the volume it appends is computed from its own lattice and factor.
C9_SharedTempFile ==
    \A r \in Runs :
        \A k \in 1..Len(run[r].energies) :
            /\ run[r].energies[k] = DivInt(XtbEnergy(run[r].read[k]), run[r].rnum)
            /\ \/ run[r].read[k] = run[r].wrote[k]
               \/ \E o \in Runs \ {r} : run[r].read[k] \in FilesWrittenBy(o)
            /\ k <= Len(run[r].volumes) =>
                   run[r].volumes[k]
                     = Mul(unit_vol(LatticeOf(run[r].input)).val, run[r].sfs[k])

\* A call has appended the energy of the other call's structure next to the
\* volume of its own.
C9_Witness ==
    \E r \in Runs :
        \E k \in 1..Len(run[r].volumes) :
            /\ run[r].read[k] # run[r].wrote[k]
            /\ run[r].energies[k] # DivInt(XtbEnergy(run[r].wrote[k]), run[r].rnum)
            /\ run[r].energies[k] = DivInt(XtbEnergy(run[r].read[k]), run[r].rnum)
            /\ run[r].volumes[k]
                 = Mul(unit_vol(LatticeOf(run[r].input)).val, run[r].sfs[k])
====
